---- MODULE Spec2Model ----
(***************************************************************************)
(* SimpleRecipeService (backend/services/simple_recipe_service.py): the    *)
(* recipe lookup facade with its two time-bounded search caches and its    *)
(* image cache.                                                            *)
(*                                                                         *)
(* Text is a sequence of one-character strings, so that strip(), lower(),  *)
(* sorted() and join() are computed character by character.                *)
(* The coroutines search_by_ingredients, search_by_name and                *)
(* get_random_recipes contain no await: each runs to completion, so each   *)
(* is one action. What a call does in a state (the list it returns, the    *)
(* provider calls it makes, the maps it leaves) is an operator of that     *)
(* state and of the call's arguments; the action installs it.              *)
(* The clock moves between calls only: the two reads of time.time() in a   *)
(* call that misses (the cache check and the store) see the same time.     *)
(* The Dataset Search Provider builds the records of each result anew, so  *)
(* a list in a search cache is a value that later enrichments leave alone. *)
(* ThreadSpec has the facade called from two threads: there the statements *)
(* of two calls interleave, and a call is a sequence of steps (cache       *)
(* check, provider call, one or two steps for each record, cache write).   *)
(* FaultySpec has providers that may raise, SharedKeySpec callers whose    *)
(* ingredient list and name query have the same key text.                  *)
(***************************************************************************)
EXTENDS Integers, Sequences, FiniteSets, TLC

VARIABLES
    now,                    \* time.time(), in seconds
    cache_by_ingredients,   \* self._cache_by_ingredients: key -> [ts, list]
    cache_by_name,          \* self._cache_by_name:        key -> [ts, list]
    image_cache,            \* self._image_cache:          key -> url
    image_calls,            \* history: <<name, cuisine>> -> calls of get_recipe_image so far
    first,                  \* history: what one earlier search call saw and returned
    inflight                \* thread -> the call it is in: position and local variables

vars ==
    <<now, cache_by_ingredients, cache_by_name, image_cache, image_calls, first, inflight>>

\* ------------------------------------------------------------------ bounds

MaxTicks == 2
MaxLimit == 2

\* ------------------------------------------------------------------ configuration

cache_ttl_seconds == 600

\* The clock advances in steps of half a TTL, so that an entry is seen at
\* the ages 0, ttl/2, ttl (the boundary) and beyond.
TimeStep == cache_ttl_seconds \div 2
MaxNow == MaxTicks * TimeStep

\* ------------------------------------------------------------------ text

\* The characters in use, in code point order.
CharOrder == <<" ", ",", "A", "B", "C", "_", "a", "b", "c">>

\* ord(c), up to the characters left out
Ord == [c \in {CharOrder[i] : i \in 1..Len(CharOrder)} |->
            CHOOSE i \in 1..Len(CharOrder) : CharOrder[i] = c]

\* str.lower() on one character
lower_char(c) ==
    CASE c = "A" -> "a"
      [] c = "B" -> "b"
      [] c = "C" -> "c"
      [] OTHER -> c

\* str.lower()
lower(s) == [i \in 1..Len(s) |-> lower_char(s[i])]

RECURSIVE lstrip(_)
lstrip(s) == IF s # <<>> /\ Head(s) = " " THEN lstrip(Tail(s)) ELSE s

RECURSIVE rstrip(_)
rstrip(s) ==
    IF s # <<>> /\ s[Len(s)] = " " THEN rstrip(SubSeq(s, 1, Len(s) - 1)) ELSE s

\* str.strip()
strip(s) == rstrip(lstrip(s))

\* s < t for Python strings: lexicographic by code point
RECURSIVE str_less(_, _)
str_less(s, t) ==
    IF t = <<>> THEN FALSE
    ELSE IF s = <<>> THEN TRUE
    ELSE IF Head(s) # Head(t) THEN Ord[Head(s)] < Ord[Head(t)]
    ELSE str_less(Tail(s), Tail(t))

\* sorted(S) of a set of strings
RECURSIVE sorted(_)
sorted(S) ==
    IF S = {} THEN <<>>
    ELSE LET m == CHOOSE x \in S : \A y \in S \ {x} : str_less(x, y)
         IN  <<m>> \o sorted(S \ {m})

\* sep.join(parts)
RECURSIVE join(_, _)
join(sep, parts) ==
    IF parts = <<>> THEN <<>>
    ELSE IF Len(parts) = 1 THEN parts[1]
    ELSE parts[1] \o sep \o join(sep, Tail(parts))

\* s[:n] for n >= 0
slice(s, n) == SubSeq(s, 1, IF n < Len(s) THEN n ELSE Len(s))

\* whether sub occurs in s
contains(s, sub) ==
    \E i \in 0..(Len(s) - Len(sub)) : SubSeq(s, i + 1, i + Len(sub)) = sub

SeqRange(s) == {s[i] : i \in 1..Len(s)}

\* ------------------------------------------------------------------ cache keys

\* A variant of the key that joins the entries in the order given.
ingredients_key_unsorted(ingredients) ==
    join(<<",">>,
         [n \in 1..Len(ingredients) |-> lower(strip(ingredients[n]))])

\* ",".join(sorted(set([i.strip().lower() for i in ingredients if i])))
\* The filter "if i" tests each entry before it is stripped.
ingredients_key(ingredients) ==
    join(<<",">>,
         sorted({lower(strip(ingredients[n])) :
                    n \in {m \in 1..Len(ingredients) : ingredients[m] # <<>>}}))

\* query.strip().lower()
name_key(query) == lower(strip(query))

\* f"{recipe_name}_{cuisine}".lower()
image_cache_key(recipe_name, cuisine) == lower(recipe_name \o <<"_">> \o cuisine)

\* ------------------------------------------------------------------ providers

\* IndianRecipeService's loaded dataset. A record is a recipe mapping; an
\* ingredient entry is plain text (kind "str") or a mapping with a name
\* (kind "dict"). image_url = <<>> and image_source = "" stand for the keys
\* being absent.
Recipe(name, cuisine, ingredients) ==
    [name |-> name, cuisine |-> cuisine, ingredients |-> ingredients,
     image_url |-> <<>>, image_source |-> ""]

PlainIng(text) == [kind |-> "str", name |-> text]
DictIng(name) == [kind |-> "dict", name |-> name]

Dataset ==
    << Recipe(<<"a", "_", "b">>, <<"c">>, <<PlainIng(<<"a">>)>>),
       Recipe(<<"a">>, <<"b", "_", "c">>, <<DictIng(<<"b">>)>>),
       Recipe(<<"b">>, <<"c">>, <<PlainIng(<<"a">>), DictIng(<<"b">>)>>),
       Recipe(<<"b">>, <<"c">>, <<PlainIng(<<"c">>)>>) >>

Pairs == {<<Dataset[i].name, Dataset[i].cuisine>> : i \in 1..Len(Dataset)}

\* the records of ds that are in the set matching, in dataset order
RECURSIVE select(_, _)
select(ds, matching) ==
    IF ds = <<>> THEN <<>>
    ELSE (IF Head(ds) \in matching THEN <<Head(ds)>> ELSE <<>>) \o select(Tail(ds), matching)

\* IndianRecipeService.search_by_name(query, limit): a deterministic
\* function of its arguments that honours limit.
indian_search_by_name(query, limit) ==
    LET match(r) == contains(lower(r.name), lower(strip(query)))
    IN  slice(select(Dataset, {r \in SeqRange(Dataset) : match(r)}), limit)

\* IndianRecipeService.search_by_ingredients(ingredients, limit)
indian_search_by_ingredients(ingredients, limit) ==
    LET wanted == {lower(strip(ingredients[n])) : n \in 1..Len(ingredients)} \ {<<>>}
        match(r) == \E n \in 1..Len(r.ingredients) : lower(r.ingredients[n].name) \in wanted
    IN  slice(select(Dataset, {r \in SeqRange(Dataset) : match(r)}), limit)

\* IndianRecipeService.get_random_recipes(count): the selections it may
\* return, each of at most count distinct records of the dataset.
indian_random_selections(count) ==
    {<<>>}
    \cup (IF count >= 1 THEN {<<Dataset[i]>> : i \in 1..Len(Dataset)} ELSE {})
    \cup (IF count >= 2
          THEN {<<Dataset[i], Dataset[j]>> :
                    <<i, j>> \in {p \in (1..Len(Dataset)) \X (1..Len(Dataset)) : p[1] # p[2]}}
          ELSE {})

\* AccurateImageService.get_recipe_image(recipe_name, cuisine, ingredients):
\* total and deterministic, never the empty text.
get_recipe_image(recipe_name, cuisine, ingredients) ==
    <<"/">> \o recipe_name \o <<"/">> \o cuisine \o <<"/">> \o ingredients

\* ------------------------------------------------------------------ enrichment

Has(map, key) == key \in DOMAIN map

\* map[key] = value, the other keys kept
Put(map, key, value) ==
    [k \in DOMAIN map \cup {key} |-> IF k = key THEN value ELSE map[k]]

\* The loop body's choice of image_source on the two branches.
source_when_cached == "accurate_recipe_specific_cached"
source_when_resolved == "accurate_recipe_specific"

\* ', '.join(ingredients_list): an entry's name if it is a mapping, str(entry) otherwise
ingredients_str(recipe) ==
    join(<<",", " ">>, [n \in 1..Len(recipe.ingredients) |-> recipe.ingredients[n].name])

\* Variants of the loop body: one that never writes the image cache, one
\* that leaves a record whose key is cached as it came.
enhance_one_no_store(recipe, icache) ==
    LET cache_key == image_cache_key(recipe.name, recipe.cuisine)
        url == IF Has(icache, cache_key) THEN icache[cache_key]
               ELSE get_recipe_image(recipe.name, recipe.cuisine, ingredients_str(recipe))
    IN  [recipe |-> [recipe EXCEPT !.image_url = url,
                                   !.image_source = IF Has(icache, cache_key)
                                                    THEN source_when_cached
                                                    ELSE source_when_resolved],
         icache |-> icache,
         invoked |-> ~Has(icache, cache_key)]

enhance_one_skip_cached(recipe, icache) ==
    LET cache_key == image_cache_key(recipe.name, recipe.cuisine)
        url == get_recipe_image(recipe.name, recipe.cuisine, ingredients_str(recipe))
    IN  IF Has(icache, cache_key)
        THEN [recipe |-> recipe, icache |-> icache, invoked |-> FALSE]
        ELSE [recipe |-> [recipe EXCEPT !.image_url = url,
                                        !.image_source = source_when_resolved],
              icache |-> Put(icache, cache_key, url),
              invoked |-> TRUE]

\* A variant of the loop body that asks the provider for every record and
\* writes the image cache anew.
enhance_one_refresh(recipe, icache) ==
    LET cache_key == image_cache_key(recipe.name, recipe.cuisine)
        accurate_image_url ==
            get_recipe_image(recipe.name, recipe.cuisine, ingredients_str(recipe))
    IN  [recipe |-> [recipe EXCEPT !.image_url = accurate_image_url,
                                   !.image_source = source_when_resolved],
         icache |-> Put(icache, cache_key, accurate_image_url),
         invoked |-> TRUE]

\* A variant of the loop body that tags every record as resolved.
enhance_one_one_tag(recipe, icache) ==
    LET cache_key == image_cache_key(recipe.name, recipe.cuisine)
    IN  IF Has(icache, cache_key)
        THEN [recipe |-> [recipe EXCEPT !.image_url = icache[cache_key],
                                        !.image_source = source_when_resolved],
              icache |-> icache, invoked |-> FALSE]
        ELSE LET accurate_image_url ==
                     get_recipe_image(recipe.name, recipe.cuisine, ingredients_str(recipe))
             IN  [recipe |-> [recipe EXCEPT !.image_url = accurate_image_url,
                                            !.image_source = source_when_resolved],
                  icache |-> Put(icache, cache_key, accurate_image_url),
                  invoked |-> TRUE]

\* One pass of the loop body of _enhance_with_accurate_images on one recipe,
\* with the image cache icache: the recipe with its two fields set, the
\* image cache after it and whether get_recipe_image was called.
enhance_one(recipe, icache) ==
    LET cache_key == image_cache_key(recipe.name, recipe.cuisine)
    IN  IF Has(icache, cache_key)
        THEN [recipe |-> [recipe EXCEPT !.image_url = icache[cache_key],
                                        !.image_source = source_when_cached],
              icache |-> icache,
              invoked |-> FALSE]
        ELSE LET accurate_image_url ==
                     get_recipe_image(recipe.name, recipe.cuisine, ingredients_str(recipe))
             IN  [recipe |-> [recipe EXCEPT !.image_url = accurate_image_url,
                                            !.image_source = source_when_resolved],
                  icache |-> Put(icache, cache_key, accurate_image_url),
                  invoked |-> TRUE]

\* _enhance_with_accurate_images(recipes) from st = [recipes (done so far),
\* icache, steps]: the records in order, each through enhance_one. steps
\* logs, per record, its (name, cuisine) and whether get_recipe_image was
\* called for it.
RECURSIVE enhance_from(_, _)
enhance_from(recipes, st) ==
    IF recipes = <<>> THEN st
    ELSE LET r == Head(recipes)
             pair == <<r.name, r.cuisine>>
             one == enhance_one(r, st.icache)
         IN  enhance_from(Tail(recipes),
                 [recipes |-> Append(st.recipes, one.recipe),
                  icache |-> one.icache,
                  steps |-> Append(st.steps, [pair |-> pair, invoked |-> one.invoked])])

enhance_with_accurate_images(recipes, icache) ==
    enhance_from(recipes, [recipes |-> <<>>, icache |-> icache, steps |-> <<>>])

\* ------------------------------------------------------------------ inputs

Limits == 0..MaxLimit

Queries == { <<>>, <<"a">>, <<" ", "A">> }

IngredientLists ==
    { <<>>,
      << <<"a">>, <<>>, <<" ", " ">> >>,
      << <<"b">>, <<"a">> >>,
      << <<"A">>, <<"B">> >> }

\* ------------------------------------------------------------------ search caches

\* cache.get(key): the entry, or None (present = FALSE)
cache_get(cache, key) ==
    IF Has(cache, key)
    THEN [present |-> TRUE, ts |-> cache[key].ts, list |-> cache[key].list]
    ELSE [present |-> FALSE, ts |-> 0, list |-> <<>>]

\* Variants of the freshness test: the comparison turned round, and the
\* boundary age counted as fresh.
is_fresh_inverted(cached, t) == cached.present /\ (t - cached.ts) > cache_ttl_seconds

is_fresh_inclusive(cached, t) == cached.present /\ (t - cached.ts) <= cache_ttl_seconds

\* cached and (time.time() - cached[0]) < self._cache_ttl_seconds
is_fresh(cached, t) == cached.present /\ (t - cached.ts) < cache_ttl_seconds

\* (time.time(), result)
Entry(t, result) == [ts |-> t, list |-> result]

\* ------------------------------------------------------------------ operations

\* The facade's state as a call finds it: the clock and the three maps.
State(t, by_ingredients, by_name, icache) ==
    [now |-> t, cache_by_ingredients |-> by_ingredients, cache_by_name |-> by_name,
     image_cache |-> icache]

Current == State(now, cache_by_ingredients, cache_by_name, image_cache)

\* What one call does: the list it returns, whether the search cache served
\* it, its cache key, the timestamp of the entry it read or stored (-1 when
\* none), the Dataset Search Provider calls it made, its enrichment steps
\* and the three maps as it leaves them.
Outcome(ret, hit, key, ts, ds, steps, by_ingredients, by_name, icache) ==
    [ret |-> ret, hit |-> hit, key |-> key, ts |-> ts, ds |-> ds, steps |-> steps,
     cache_by_ingredients |-> by_ingredients, cache_by_name |-> by_name,
     image_cache |-> icache]

\* the facade's state at time t after a call with outcome o
After(o, t) == State(t, o.cache_by_ingredients, o.cache_by_name, o.image_cache)

\* return [] of the two early returns
EarlyReturn(st) ==
    Outcome(<<>>, FALSE, <<>>, -1, <<>>, <<>>,
            st.cache_by_ingredients, st.cache_by_name, st.image_cache)

\* A variant of the cache hit that returns the cached list whole.
CacheHit_unsliced(key, cached, limit, st) ==
    Outcome(cached.list, TRUE, key, cached.ts, <<>>, <<>>,
            st.cache_by_ingredients, st.cache_by_name, st.image_cache)

\* return cached[1][:limit]
CacheHit(key, cached, limit, st) ==
    Outcome(slice(cached.list, limit), TRUE, key, cached.ts, <<>>, <<>>,
            st.cache_by_ingredients, st.cache_by_name, st.image_cache)

DsCall(op, arg, limit) == [op |-> op, arg |-> arg, limit |-> limit]

\* Callers whose ingredient list and name query give one and the same key
\* text: the list ["a"] and the query "a".
SharedKeyIngredientLists == { << <<"a">> >> }

SharedKeyQueries == { <<"a">> }

\* ingredients_key on the lists the callers pass, computed once
ingredients_key_of ==
    [i \in IngredientLists \cup SharedKeyIngredientLists |-> ingredients_key(i)]

\* A variant of search_by_ingredients past its guard that runs the
\* enrichment over the entry it is served from.
search_by_ingredients_lookup_reenrich(ingredients, limit, st) ==
    LET key == ingredients_key_of[ingredients]
        cached == cache_get(st.cache_by_ingredients, key)
    IN  IF is_fresh(cached, st.now)
        THEN LET e == enhance_with_accurate_images(cached.list, st.image_cache)
             IN  Outcome(slice(e.recipes, limit), TRUE, key, cached.ts, <<>>, e.steps,
                         Put(st.cache_by_ingredients, key, Entry(cached.ts, e.recipes)),
                         st.cache_by_name, e.icache)
        ELSE LET result == indian_search_by_ingredients(ingredients, limit)
                 e == enhance_with_accurate_images(result, st.image_cache)
             IN  Outcome(e.recipes, FALSE, key, st.now,
                         <<DsCall("search_by_ingredients", ingredients, limit)>>,
                         e.steps,
                         Put(st.cache_by_ingredients, key, Entry(st.now, e.recipes)),
                         st.cache_by_name, e.icache)

\* search_by_ingredients past its guard: cache check, and on a miss the
\* provider call, the enrichment and the cache update
search_by_ingredients_lookup(ingredients, limit, st) ==
    LET key == ingredients_key_of[ingredients]
        cached == cache_get(st.cache_by_ingredients, key)
    IN  IF is_fresh(cached, st.now) THEN CacheHit(key, cached, limit, st)
        ELSE LET result == indian_search_by_ingredients(ingredients, limit)
                 e == enhance_with_accurate_images(result, st.image_cache)
             IN  Outcome(e.recipes, FALSE, key, st.now,
                         <<DsCall("search_by_ingredients", ingredients, limit)>>,
                         e.steps,
                         Put(st.cache_by_ingredients, key, Entry(st.now, e.recipes)),
                         st.cache_by_name, e.icache)

\* search_by_ingredients(ingredients, limit) called in state st
search_by_ingredients_call(ingredients, limit, st) ==
    IF ingredients = <<>> THEN EarlyReturn(st)
    ELSE search_by_ingredients_lookup(ingredients, limit, st)

\* A variant of search_by_name past its guard that asks the provider again
\* when the entry holds fewer records than the limit.
search_by_name_lookup_refetch(query, limit, st) ==
    LET qkey == name_key(query)
        cached == cache_get(st.cache_by_name, qkey)
    IN  IF is_fresh(cached, st.now) /\ Len(cached.list) >= limit
        THEN CacheHit(qkey, cached, limit, st)
        ELSE LET result == indian_search_by_name(query, limit)
                 e == enhance_with_accurate_images(result, st.image_cache)
             IN  Outcome(e.recipes, FALSE, qkey, st.now,
                         <<DsCall("search_by_name", query, limit)>>,
                         e.steps,
                         st.cache_by_ingredients,
                         Put(st.cache_by_name, qkey, Entry(st.now, e.recipes)),
                         e.icache)

\* A variant of search_by_name past its guard that keeps its entries in the
\* map of search_by_ingredients.
search_by_name_lookup_one_map(query, limit, st) ==
    LET qkey == name_key(query)
        cached == cache_get(st.cache_by_ingredients, qkey)
    IN  IF is_fresh(cached, st.now) THEN CacheHit(qkey, cached, limit, st)
        ELSE LET result == indian_search_by_name(query, limit)
                 e == enhance_with_accurate_images(result, st.image_cache)
             IN  Outcome(e.recipes, FALSE, qkey, st.now,
                         <<DsCall("search_by_name", query, limit)>>,
                         e.steps,
                         Put(st.cache_by_ingredients, qkey, Entry(st.now, e.recipes)),
                         st.cache_by_name,
                         e.icache)

\* search_by_name past its guard
search_by_name_lookup(query, limit, st) ==
    LET qkey == name_key(query)
        cached == cache_get(st.cache_by_name, qkey)
    IN  IF is_fresh(cached, st.now) THEN CacheHit(qkey, cached, limit, st)
        ELSE LET result == indian_search_by_name(query, limit)
                 e == enhance_with_accurate_images(result, st.image_cache)
             IN  Outcome(e.recipes, FALSE, qkey, st.now,
                         <<DsCall("search_by_name", query, limit)>>,
                         e.steps,
                         st.cache_by_ingredients,
                         Put(st.cache_by_name, qkey, Entry(st.now, e.recipes)),
                         e.icache)

\* A variant of search_by_name without the guard "if not query".
search_by_name_call_unguarded(query, limit, st) == search_by_name_lookup(query, limit, st)

\* search_by_name(query, limit) called in state st
search_by_name_call(query, limit, st) ==
    IF query = <<>> THEN EarlyReturn(st)
    ELSE search_by_name_lookup(query, limit, st)

\* A variant of get_random_recipes that stores its list as the searches do.
get_random_recipes_call_cached(count, result, st) ==
    LET e == enhance_with_accurate_images(result, st.image_cache)
    IN  Outcome(e.recipes, FALSE, <<>>, -1, <<DsCall("get_random_recipes", <<>>, count)>>,
                e.steps, st.cache_by_ingredients,
                Put(st.cache_by_name, <<>>, Entry(st.now, e.recipes)), e.icache)

\* get_random_recipes(count) called in state st, the provider selecting result
get_random_recipes_call(count, result, st) ==
    LET e == enhance_with_accurate_images(result, st.image_cache)
    IN  Outcome(e.recipes, FALSE, <<>>, -1, <<DsCall("get_random_recipes", <<>>, count)>>,
                e.steps, st.cache_by_ingredients, st.cache_by_name, e.icache)

\* image_calls after the provider calls logged in steps
count_calls(calls, steps) ==
    [p \in DOMAIN calls |->
        calls[p] + Cardinality({n \in 1..Len(steps) : steps[n].pair = p /\ steps[n].invoked})]

\* the maps and the call history after a call with outcome o
Install(o) ==
    /\ cache_by_ingredients' = o.cache_by_ingredients
    /\ cache_by_name' = o.cache_by_name
    /\ image_cache' = o.image_cache
    /\ image_calls' = count_calls(image_calls, o.steps)
    /\ UNCHANGED <<now, inflight>>

\* What is kept of a search call for later comparison.
NoCall ==
    [op |-> "none", key |-> <<>>, limit |-> 0, t |-> 0, ts |-> -1, hit |-> FALSE,
     ret |-> <<>>]

Seen(op, limit, o) ==
    [op |-> op, key |-> o.key, limit |-> limit, t |-> now, ts |-> o.ts, hit |-> o.hit,
     ret |-> o.ret]

\* The earlier call kept: the first one the observer chose to keep.
Remember(seen, keep) ==
    first' = IF keep /\ first.op = "none" /\ seen.ts >= 0 THEN seen ELSE first

\* The threads that call the facade, and a thread that has not called yet.
Threads == {1, 2}

NotCalled ==
    [pc |-> "idle", op |-> "none", arg |-> <<>>, limit |-> 0, key |-> <<>>,
     result |-> <<>>, n |-> 0, ret |-> <<>>, fetched |-> FALSE, wrote |-> 0,
     together |-> FALSE]

Init ==
    /\ now = 0
    /\ cache_by_ingredients = <<>>
    /\ cache_by_name = <<>>
    /\ image_cache = <<>>
    /\ image_calls = [p \in Pairs |-> 0]
    /\ first = NoCall
    /\ inflight = [t \in Threads |-> NotCalled]

search_by_ingredients(ingredients, limit, keep) ==
    LET o == search_by_ingredients_call(ingredients, limit, Current)
    IN  Install(o) /\ Remember(Seen("ingredients", limit, o), keep)

search_by_name(query, limit, keep) ==
    LET o == search_by_name_call(query, limit, Current)
    IN  Install(o) /\ Remember(Seen("name", limit, o), keep)

get_random_recipes(count, result) ==
    Install(get_random_recipes_call(count, result, Current)) /\ UNCHANGED first

\* time passes between calls
Tick ==
    /\ now + TimeStep <= MaxNow
    /\ now' = now + TimeStep
    /\ UNCHANGED <<cache_by_ingredients, cache_by_name, image_cache, image_calls, first,
                   inflight>>

SearchByIngredients ==
    \E ingredients \in IngredientLists, limit \in Limits :
        search_by_ingredients(ingredients, limit, FALSE)

SearchByName ==
    \E query \in Queries, limit \in Limits : search_by_name(query, limit, FALSE)

GetRandomRecipes ==
    \E count \in Limits : \E result \in indian_random_selections(count) :
        get_random_recipes(count, result)

Next == SearchByIngredients \/ SearchByName \/ GetRandomRecipes \/ Tick

Spec == Init /\ [][Next]_vars

\* The same facade with an observer that keeps one search call, for the
\* claims that compare two calls. The callers here repeat one ingredient
\* set and one name, in different spellings.
PairQueries == { <<"a">>, <<" ", "A">> }

PairIngredientLists == { << <<"b">>, <<"a">> >>, << <<"A">>, <<"B">> >> }

\* the observer's choices: once a call is kept, there is none left
Keeps == IF first.op = "none" THEN BOOLEAN ELSE {FALSE}

PairSearchByIngredients ==
    \E ingredients \in PairIngredientLists, limit \in Limits, keep \in Keeps :
        search_by_ingredients(ingredients, limit, keep)

PairSearchByName ==
    \E query \in PairQueries, limit \in Limits, keep \in Keeps :
        search_by_name(query, limit, keep)

PairNext == PairSearchByIngredients \/ PairSearchByName \/ GetRandomRecipes \/ Tick

PairSpec == Init /\ [][PairNext]_vars

\* The same facade with callers whose ingredient list and name query have
\* the same key text.
SharedKeySearchByIngredients ==
    \E ingredients \in SharedKeyIngredientLists, limit \in Limits :
        search_by_ingredients(ingredients, limit, FALSE)

SharedKeySearchByName ==
    \E query \in SharedKeyQueries, limit \in Limits : search_by_name(query, limit, FALSE)

SharedKeyNext ==
    SharedKeySearchByIngredients \/ SharedKeySearchByName \/ GetRandomRecipes \/ Tick

SharedKeySpec == Init /\ [][SharedKeyNext]_vars

\* ------------------------------------------------------------------ two calls with one key

\* The calls that can be made now with the kept call's operation, cache key
\* and limit.
Repeats ==
    IF first.op = "name"
    THEN {search_by_name_call(q, first.limit, Current) :
            q \in {x \in Queries : x # <<>> /\ name_key(x) = first.key}}
    ELSE IF first.op = "ingredients"
    THEN {search_by_ingredients_call(i, first.limit, Current) :
            i \in {x \in IngredientLists : x # <<>> /\ ingredients_key_of[x] = first.key}}
    ELSE {}

\* Dataset Search Provider calls of the kept call
FirstDsCalls == IF first.hit THEN 0 ELSE 1

SameAsFirst(o) == FirstDsCalls + Len(o.ds) <= 1 /\ o.ret = first.ret

\* C1 as stated: a call made less than the TTL after an earlier call with
\* the same operation, cache key and limit makes, together with that call,
\* at most one Dataset Search Provider call and returns the list the earlier
\* call returned, image fields included.
C1_WithinTtlOfFirstCall ==
    \A o \in Repeats : (now - first.t) < cache_ttl_seconds => SameAsFirst(o)

\* C1 amended: the same, for a call made less than the TTL after the
\* timestamp of the cache entry the earlier call stored or was served from.
C1_WithinTtlOfEntry ==
    \A o \in Repeats : (now - first.ts) < cache_ttl_seconds => SameAsFirst(o)

\* A repeated name search served from the entry the kept call stored, half
\* a TTL later, with an ingredient search made as well.
C1_Witness ==
    /\ first.op = "name" /\ ~first.hit /\ Len(first.ret) = MaxLimit
    /\ now = first.ts + TimeStep
    /\ cache_by_ingredients # <<>>
    /\ \E o \in Repeats : o.hit /\ o.ret = first.ret

\* ------------------------------------------------------------------ expiry

\* the calls that can be made now, by operation
NameCalls ==
    {LET o == search_by_name_call(q, l, Current)
     IN  [arg |-> q, limit |-> l, key |-> name_key(q), cache |-> cache_by_name,
          o |-> o, cache_after |-> o.cache_by_name,
          ds |-> DsCall("search_by_name", q, l)] : q \in Queries \ {<<>>}, l \in Limits}

IngredientCalls ==
    {LET o == search_by_ingredients_call(i, l, Current)
     IN  [arg |-> i, limit |-> l, key |-> ingredients_key_of[i],
          cache |-> cache_by_ingredients,
          o |-> o, cache_after |-> o.cache_by_ingredients,
          ds |-> DsCall("search_by_ingredients", i, l)] :
        i \in IngredientLists \ {<<>>}, l \in Limits}

SearchCalls == NameCalls \cup IngredientCalls

\* C2: a search call that finds an entry for its key of age >= TTL (the
\* age equal to the TTL included) calls the Dataset Search Provider and
\* replaces the entry by (now, the list it returns); one that finds an entry
\* of age < TTL returns from it, calls no provider and leaves the cache.
C2_ExpiryAtTtl ==
    \A c \in SearchCalls :
        Has(c.cache, c.key) =>
            IF (now - c.cache[c.key].ts) >= cache_ttl_seconds
            THEN /\ c.o.ds = <<c.ds>>
                 /\ ~c.o.hit
                 /\ c.cache_after[c.key] = Entry(now, c.o.ret)
                 /\ c.cache_after[c.key].ts > c.cache[c.key].ts
            ELSE /\ c.o.ds = <<>>
                 /\ c.o.hit
                 /\ c.cache_after = c.cache
                 /\ c.o.ret = slice(c.cache[c.key].list, c.limit)

\* Both caches hold an entry whose age is the TTL exactly, one of them with
\* a list that the refreshed entry will not repeat.
C2_Witness ==
    /\ \E c \in NameCalls :
          /\ Has(c.cache, c.key) /\ now - c.cache[c.key].ts = cache_ttl_seconds
          /\ c.cache[c.key].list # <<>>
          /\ c.cache_after[c.key].list # c.cache[c.key].list
    /\ \E c \in IngredientCalls :
          Has(c.cache, c.key) /\ now - c.cache[c.key].ts = cache_ttl_seconds

\* ------------------------------------------------------------------ key normalisation

\* b is a with its entries reordered and their letter case changed
Rearranged(a, b) ==
    /\ Len(a) = Len(b)
    /\ \A n \in 1..Len(a) :
          Cardinality({m \in 1..Len(a) : lower(a[m]) = lower(a[n])})
              = Cardinality({m \in 1..Len(b) : lower(b[m]) = lower(a[n])})

\* the pairs of distinct non-empty lists that differ only in order and case
RearrangedPairs ==
    {p \in IngredientLists \X IngredientLists :
        p[1] # <<>> /\ p[1] # p[2] /\ Rearranged(p[1], p[2])}

\* C3: of two search_by_ingredients calls with the same limit whose
\* non-empty lists differ only in order and letter case, the second made
\* while the entry the first stored or read has not expired, both compute
\* the same cache key and return the same list.
C3_OrderAndCaseInsensitive ==
    \A p \in RearrangedPairs, l \in Limits, dt \in {0, TimeStep} :
        LET o1 == search_by_ingredients_call(p[1], l, Current)
            o2 == search_by_ingredients_call(p[2], l, After(o1, now + dt))
        IN  (now + dt - o1.ts) < cache_ttl_seconds
                => (o2.key = o1.key /\ o2.ret = o1.ret)

\* Two lists in different order and case, the entry of their key half a TTL
\* old with records in it.
C3_Witness ==
    \E p \in RearrangedPairs :
        /\ Has(cache_by_ingredients, ingredients_key_of[p[1]])
        /\ cache_by_ingredients[ingredients_key_of[p[1]]].list # <<>>
        /\ now - cache_by_ingredients[ingredients_key_of[p[1]]].ts = TimeStep

\* ------------------------------------------------------------------ empty arguments

\* C4: in every state search_by_ingredients([], limit) and
\* search_by_name("", limit) return the empty list, call neither provider
\* and leave the three maps as they are.
C4_EmptyArgumentsReturnEmpty ==
    \A l \in Limits :
        \A o \in {search_by_ingredients_call(<<>>, l, Current),
                  search_by_name_call(<<>>, l, Current)} :
            /\ o.ret = <<>>
            /\ o.ds = <<>>
            /\ o.steps = <<>>
            /\ After(o, now) = Current

\* The maps hold entries, the by-name entry of the key "" would be absent
\* and the dataset has records for it.
C4_Witness ==
    /\ cache_by_ingredients # <<>> /\ cache_by_name # <<>> /\ image_cache # <<>>
    /\ ~Has(cache_by_name, name_key(<<>>))
    /\ indian_search_by_name(<<>>, MaxLimit) # <<>>

\* ------------------------------------------------------------------ image resolution

RandomCalls ==
    {[count |-> c[1], result |-> c[2], o |-> get_random_recipes_call(c[1], c[2], Current)] :
        c \in UNION {{<<n, r>> : r \in indian_random_selections(n)} : n \in Limits}}

\* the lists the three operations can return now
Returned == {c.o.ret : c \in SearchCalls} \cup {c.o.ret : c \in RandomCalls}

\* the records held by the two search caches
CachedRecords ==
    UNION {SeqRange(cache_by_ingredients[k].list) : k \in DOMAIN cache_by_ingredients}
    \cup UNION {SeqRange(cache_by_name[k].list) : k \in DOMAIN cache_by_name}

\* C5: over any sequence of calls get_recipe_image has been called at most
\* once for each (name, cuisine), and a pair it was called for is in the
\* image cache, from which later calls serve it.
C5_OneResolutionPerPair ==
    \A p \in Pairs :
        /\ image_calls[p] <= 1
        /\ image_calls[p] = 1 => Has(image_cache, image_cache_key(p[1], p[2]))

\* A record in a search cache was served from the image cache, its pair
\* resolved once by an earlier call.
C5_Witness ==
    \E r \in CachedRecords :
        /\ r.image_source = source_when_cached
        /\ image_calls[<<r.name, r.cuisine>>] = 1

\* C6: every record that search_by_ingredients, search_by_name or
\* get_random_recipes returns, from the cache or not, has a non-empty
\* image_url and an image_source that is one of the two tags.
C6_ReturnedRecordsHaveImages ==
    \A ret \in Returned :
        \A n \in 1..Len(ret) :
            /\ ret[n].image_url # <<>>
            /\ ret[n].image_source \in
                  {"accurate_recipe_specific", "accurate_recipe_specific_cached"}

\* A search served from the cache and a search that misses both return
\* records, some tagged as resolved and some as cached.
C6_Witness ==
    /\ \E c \in SearchCalls : c.o.hit /\ c.o.ret # <<>>
    /\ \E c \in SearchCalls : ~c.o.hit /\ Len(c.o.ret) = MaxLimit
    /\ \E ret \in Returned : \E n \in 1..Len(ret) :
          ret[n].image_source = "accurate_recipe_specific"
    /\ \E ret \in Returned : \E n \in 1..Len(ret) :
          ret[n].image_source = "accurate_recipe_specific_cached"

\* ------------------------------------------------------------------ random recipes

Enriched(r) == r.image_url # <<>> /\ r.image_source # ""

\* C7: get_random_recipes(count) returns at most count records, each with
\* its image fields; it calls the provider's random selection, returns what
\* it would return were both search caches empty, and leaves both search
\* caches as they are, the image cache only gaining entries.
C7_RandomBypassesSearchCaches ==
    \A c \in RandomCalls :
        /\ Len(c.o.ret) <= c.count
        /\ \A n \in 1..Len(c.o.ret) : Enriched(c.o.ret[n])
        /\ c.o.ds = <<DsCall("get_random_recipes", <<>>, c.count)>>
        /\ c.o.ret = get_random_recipes_call(c.count, c.result,
                                             State(now, <<>>, <<>>, image_cache)).ret
        /\ c.o.cache_by_ingredients = cache_by_ingredients
        /\ c.o.cache_by_name = cache_by_name
        /\ \A k \in DOMAIN image_cache :
              Has(c.o.image_cache, k) /\ c.o.image_cache[k] = image_cache[k]

\* Both search caches hold records, and a random selection of MaxLimit
\* records adds to the image cache.
C7_Witness ==
    /\ \E k \in DOMAIN cache_by_ingredients : cache_by_ingredients[k].list # <<>>
    /\ \E k \in DOMAIN cache_by_name : cache_by_name[k].list # <<>>
    /\ \E c \in RandomCalls :
          /\ c.count = MaxLimit /\ Len(c.o.ret) = MaxLimit
          /\ DOMAIN c.o.image_cache # DOMAIN image_cache
          /\ DOMAIN image_cache # {}

\* ------------------------------------------------------------------ limit

\* C8: a search_by_ingredients or search_by_name call with limit L returns
\* at most L records, from the cache or not.
C8_AtMostLimit == \A c \in SearchCalls : Len(c.o.ret) <= c.limit

\* A call is served from an entry longer than its limit, and a call that
\* misses returns as many records as its limit.
C8_Witness ==
    /\ \E c \in SearchCalls :
          c.o.hit /\ c.limit > 0 /\ Len(c.cache[c.key].list) > c.limit
    /\ \E c \in SearchCalls : ~c.o.hit /\ c.limit > 0 /\ Len(c.o.ret) = c.limit

\* ------------------------------------------------------------------ enriching twice

\* the lists of records the Dataset Search Provider can hand to the enrichment
ProviderLists == indian_random_selections(MaxLimit)

ImageFields(recipes) ==
    [n \in 1..Len(recipes) |->
        [image_url |-> recipes[n].image_url, image_source |-> recipes[n].image_source]]

Urls(recipes) == [n \in 1..Len(recipes) |-> recipes[n].image_url]

Invocations(steps) == {n \in 1..Len(steps) : steps[n].invoked}

\* C9 as stated: enriching an enriched list again leaves image_url and
\* image_source of every record as the first enrichment set them, and calls
\* no provider.
C9_SecondEnrichmentSameFields ==
    \A recipes \in ProviderLists :
        LET e1 == enhance_with_accurate_images(recipes, image_cache)
            e2 == enhance_with_accurate_images(e1.recipes, e1.icache)
        IN  /\ ImageFields(e2.recipes) = ImageFields(e1.recipes)
            /\ Invocations(e2.steps) = {}

\* C9 amended: enriching an enriched list again leaves every image_url as
\* the first enrichment set it, sets every image_source to
\* accurate_recipe_specific_cached, calls no provider and leaves the image
\* cache as it is.
C9_SecondEnrichmentSameUrl ==
    \A recipes \in ProviderLists :
        LET e1 == enhance_with_accurate_images(recipes, image_cache)
            e2 == enhance_with_accurate_images(e1.recipes, e1.icache)
        IN  /\ Urls(e2.recipes) = Urls(e1.recipes)
            /\ \A n \in 1..Len(e2.recipes) :
                  e2.recipes[n].image_source = "accurate_recipe_specific_cached"
            /\ Invocations(e2.steps) = {}
            /\ e2.icache = e1.icache

\* After earlier calls filled part of the image cache, the first enrichment
\* of a list resolves one record and serves another from the cache.
C9_Witness ==
    /\ image_cache # <<>>
    /\ \E recipes \in ProviderLists :
          LET e1 == enhance_with_accurate_images(recipes, image_cache)
          IN  /\ \E n \in 1..Len(e1.steps) : e1.steps[n].invoked
              /\ \E n \in 1..Len(e1.steps) : ~e1.steps[n].invoked

\* ------------------------------------------------------------------ the ingredients key

NotBlank(text) == strip(text) # <<>>

\* the key as documented: strip and lowercase each entry, drop those left
\* empty, deduplicate, sort, join with commas
documented_key(ingredients) ==
    join(<<",">>,
         sorted({lower(strip(ingredients[n])) : n \in 1..Len(ingredients)} \ {<<>>}))

\* C10: the by-ingredients cache key is the documented key, so a list with
\* whitespace-only entries gets the key of the list without them.
C10_KeyDropsBlankEntries ==
    \A c \in IngredientCalls :
        /\ c.o.key = documented_key(c.arg)
        /\ c.o.key = ingredients_key(SelectSeq(c.arg, NotBlank))

\* ------------------------------------------------------------------ a larger limit

\* The calls that can be made now with the kept call's operation and cache
\* key, with every limit: the call's outcome, the entry it finds, the
\* provider call it makes on a miss and the number of records the provider
\* has for it.
LaterCalls ==
    IF first.op = "name"
    THEN {[limit |-> l, o |-> search_by_name_call(q, l, Current),
           entry |-> cache_get(cache_by_name, first.key),
           ds |-> DsCall("search_by_name", q, l),
           avail |-> Len(indian_search_by_name(q, l))] :
            q \in {x \in Queries : x # <<>> /\ name_key(x) = first.key}, l \in Limits}
    ELSE IF first.op = "ingredients"
    THEN {[limit |-> l, o |-> search_by_ingredients_call(i, l, Current),
           entry |-> cache_get(cache_by_ingredients, first.key),
           ds |-> DsCall("search_by_ingredients", i, l),
           avail |-> Len(indian_search_by_ingredients(i, l))] :
            i \in {x \in IngredientLists : x # <<>> /\ ingredients_key_of[x] = first.key},
            l \in Limits}
    ELSE {}

\* C11: after a call with limit L1 stored an entry, a call with the same
\* operation and key and a larger limit L2 made less than the TTL after the
\* entry's timestamp calls no provider and returns the stored list, which
\* has at most L1 records; a call with L2 that finds the entry of its key
\* expired asks the provider for L2 records and returns what it has, at
\* most L2.
C11_LargerLimitWithinTtl ==
    \A c \in LaterCalls :
        (~first.hit /\ c.limit > first.limit) =>
            /\ (now - first.ts) < cache_ttl_seconds =>
                  /\ c.o.ds = <<>>
                  /\ c.o.ret = first.ret
                  /\ Len(c.o.ret) <= first.limit
            /\ c.o.ds # <<>> => (now - first.ts) >= cache_ttl_seconds
            /\ (now - c.entry.ts) >= cache_ttl_seconds =>
                  /\ c.o.ds = <<c.ds>>
                  /\ Len(c.o.ret) = c.avail
                  /\ Len(c.o.ret) <= c.limit

\* Half a TTL after a name search with limit 1 stored one record, a search
\* with limit 2, for which the provider has two records, is served that one.
C11_Witness ==
    /\ first.op = "name" /\ ~first.hit /\ first.limit = 1 /\ Len(first.ret) = 1
    /\ now = first.ts + TimeStep
    /\ \E c \in LaterCalls :
          c.limit = 2 /\ c.avail = 2 /\ c.o.hit /\ c.o.ret = first.ret

\* ------------------------------------------------------------------ the tags of one pass

\* the image cache as a pass over recipes, started with icache, finds it
\* when it comes to record n
CacheBefore(recipes, n, icache) ==
    enhance_with_accurate_images(SubSeq(recipes, 1, n - 1), icache).icache

\* record n of a pass is tagged accurate_recipe_specific exactly when the
\* Accurate Image Provider was called for it, which is exactly when its
\* key was not in the image cache, and accurate_recipe_specific_cached
\* exactly when its key was there
TaggedByBranch(recipes, icache) ==
    LET e == enhance_with_accurate_images(recipes, icache)
    IN  \A n \in 1..Len(recipes) :
            LET absent == ~Has(CacheBefore(recipes, n, icache),
                               image_cache_key(recipes[n].name, recipes[n].cuisine))
            IN  /\ e.steps[n].invoked <=> absent
                /\ e.recipes[n].image_source = "accurate_recipe_specific" <=> absent
                /\ e.recipes[n].image_source = "accurate_recipe_specific_cached" <=> ~absent

\* the positions m < n of two records of a list with one name and cuisine
SamePairPositions(recipes) ==
    {p \in (1..Len(recipes)) \X (1..Len(recipes)) :
        /\ p[1] < p[2]
        /\ recipes[p[1]].name = recipes[p[2]].name
        /\ recipes[p[1]].cuisine = recipes[p[2]].cuisine}

\* C13 as stated: in one pass the tags follow the branch taken, and of two
\* records of the list with the same name and cuisine the first is tagged
\* accurate_recipe_specific, the second accurate_recipe_specific_cached,
\* both with the same image_url.
C13_FirstOfPairResolved ==
    \A recipes \in ProviderLists :
        LET e == enhance_with_accurate_images(recipes, image_cache)
        IN  /\ TaggedByBranch(recipes, image_cache)
            /\ \A p \in SamePairPositions(recipes) :
                  /\ e.recipes[p[1]].image_source = "accurate_recipe_specific"
                  /\ e.recipes[p[2]].image_source = "accurate_recipe_specific_cached"
                  /\ e.recipes[p[2]].image_url = e.recipes[p[1]].image_url

\* C13 amended: the same, the first of the two records being tagged
\* accurate_recipe_specific when its key was not in the image cache as
\* the pass came to it, and accurate_recipe_specific_cached when it was.
C13_SecondOfPairCached ==
    \A recipes \in ProviderLists :
        LET e == enhance_with_accurate_images(recipes, image_cache)
        IN  /\ TaggedByBranch(recipes, image_cache)
            /\ \A p \in SamePairPositions(recipes) :
                  /\ e.recipes[p[1]].image_source =
                        IF Has(CacheBefore(recipes, p[1], image_cache),
                               image_cache_key(recipes[p[1]].name, recipes[p[1]].cuisine))
                        THEN "accurate_recipe_specific_cached"
                        ELSE "accurate_recipe_specific"
                  /\ e.recipes[p[2]].image_source = "accurate_recipe_specific_cached"
                  /\ e.recipes[p[2]].image_url = e.recipes[p[1]].image_url

\* A list with two records of one name and cuisine whose key an earlier
\* call left in the image cache, and another list whose pass resolves one
\* record and serves another from the cache.
C13_Witness ==
    /\ \E recipes \in ProviderLists :
          /\ SamePairPositions(recipes) # {}
          /\ Has(image_cache, image_cache_key(recipes[1].name, recipes[1].cuisine))
    /\ \E recipes \in ProviderLists :
          LET e == enhance_with_accurate_images(recipes, image_cache)
          IN  Len(recipes) = 2 /\ e.steps[1].invoked /\ ~e.steps[2].invoked

\* ------------------------------------------------------------------ stored records

\* the entries of a search cache that a step leaves in it keep their lists
EntriesKept(cache, cache_after) ==
    \A k \in DOMAIN cache :
        (Has(cache_after, k) /\ cache_after[k].ts = cache[k].ts)
            => cache_after[k].list = cache[k].list

\* C14: a record stored in an entry of a search cache keeps its image_url
\* and image_source (and its place in the list) over every operation that
\* leaves the entry in the cache, searches of other keys and random
\* selections of records with its name and cuisine included.
C14_StoredFieldsStay ==
    [][/\ EntriesKept(cache_by_name, cache_by_name')
       /\ EntriesKept(cache_by_ingredients, cache_by_ingredients')]_vars

\* A by-name entry older than the clock holds a record tagged as resolved
\* while the by-ingredients cache, filled later from the image cache, holds
\* a record with its name and cuisine tagged as cached.
C14_Witness ==
    \E k \in DOMAIN cache_by_name, j \in DOMAIN cache_by_ingredients :
        /\ cache_by_name[k].ts < now
        /\ cache_by_ingredients[j].ts > cache_by_name[k].ts
        /\ \E r \in SeqRange(cache_by_name[k].list),
              q \in SeqRange(cache_by_ingredients[j].list) :
              /\ r.name = q.name /\ r.cuisine = q.cuisine
              /\ r.image_source = "accurate_recipe_specific"
              /\ q.image_source = "accurate_recipe_specific_cached"

\* ------------------------------------------------------------------ nothing is removed

\* an entry of a search cache that a step changes was expired and is
\* replaced by one stored now
ReplacedWhenStale(cache, cache_after) ==
    \A k \in DOMAIN cache :
        /\ Has(cache_after, k)
        /\ cache_after[k] # cache[k] =>
              /\ (now - cache[k].ts) >= cache_ttl_seconds
              /\ cache_after[k].ts = now

\* C16: no step removes a key from the two search caches or the image
\* cache; an entry of a search cache stays as it is until a lookup of its
\* key finds it expired and overwrites it; an image cache entry keeps its
\* URL for ever.
C16_NothingRemoved ==
    [][/\ ReplacedWhenStale(cache_by_name, cache_by_name')
       /\ ReplacedWhenStale(cache_by_ingredients, cache_by_ingredients')
       /\ \A k \in DOMAIN image_cache :
             Has(image_cache', k) /\ image_cache'[k] = image_cache[k]]_vars

\* Both search caches hold an expired entry, and the image cache holds a
\* key that two records with different ingredients have been given.
C16_Witness ==
    /\ \E k \in DOMAIN cache_by_name : (now - cache_by_name[k].ts) >= cache_ttl_seconds
    /\ \E k \in DOMAIN cache_by_ingredients :
          (now - cache_by_ingredients[k].ts) >= cache_ttl_seconds
    /\ \E r \in CachedRecords, q \in CachedRecords :
          /\ image_cache_key(r.name, r.cuisine) = image_cache_key(q.name, q.cuisine)
          /\ Has(image_cache, image_cache_key(r.name, r.cuisine))
          /\ r.ingredients # q.ingredients

\* ------------------------------------------------------------------ image keys

\* the URLs the Accurate Image Provider has for the records of the dataset
\* with this name and cuisine, letter case apart
UrlsFor(name, cuisine) ==
    {get_recipe_image(Dataset[i].name, Dataset[i].cuisine, ingredients_str(Dataset[i])) :
        i \in {j \in 1..Len(Dataset) : /\ lower(Dataset[j].name) = lower(name)
                                       /\ lower(Dataset[j].cuisine) = lower(cuisine)}}

\* C18: a record served from the image cache has a URL that was resolved
\* for a record with its lowercased name and cuisine, records with
\* different lowercased (name, cuisine) never sharing an image key.
C18_UrlOfSamePair ==
    \A ret \in Returned :
        \A n \in 1..Len(ret) :
            ret[n].image_source = "accurate_recipe_specific_cached"
                => ret[n].image_url \in UrlsFor(ret[n].name, ret[n].cuisine)

\* ------------------------------------------------------------------ two search caches

\* the pairs of an ingredient list and a name query with one key text
SharedKeys ==
    {p \in SharedKeyIngredientLists \X SharedKeyQueries :
        ingredients_key_of[p[1]] = name_key(p[2])}

\* a call's outcome apart from the maps it leaves
Answer(o) == [ret |-> o.ret, hit |-> o.hit, ds |-> o.ds, steps |-> o.steps]

\* C15: search_by_ingredients neither reads nor writes the by-name cache
\* and search_by_name neither reads nor writes the by-ingredients cache:
\* with an ingredient list and a name query of one key text, each call
\* does what it would do were the other cache empty, is served on a hit
\* from its own cache and leaves the other cache as it is.
C15_CachesIndependent ==
    \A p \in SharedKeys, l \in Limits :
        LET k == name_key(p[2])
            by_i == search_by_ingredients_call(p[1], l, Current)
            by_n == search_by_name_call(p[2], l, Current)
        IN  /\ Answer(by_i) = Answer(search_by_ingredients_call(p[1], l,
                                  State(now, cache_by_ingredients, <<>>, image_cache)))
            /\ Answer(by_n) = Answer(search_by_name_call(p[2], l,
                                  State(now, <<>>, cache_by_name, image_cache)))
            /\ by_i.cache_by_name = cache_by_name
            /\ by_n.cache_by_ingredients = cache_by_ingredients
            /\ by_i.hit => /\ Has(cache_by_ingredients, k)
                           /\ by_i.ret = slice(cache_by_ingredients[k].list, l)
            /\ by_n.hit => /\ Has(cache_by_name, k)
                           /\ by_n.ret = slice(cache_by_name[k].list, l)

\* The by-ingredients cache holds a fresh entry with records under a key
\* that the by-name cache holds with another list or not at all, and the
\* name search of that key is not served the by-ingredients entry.
C15_Witness ==
    \E p \in SharedKeys :
        LET k == name_key(p[2])
            by_n == search_by_name_call(p[2], MaxLimit, Current)
        IN  /\ Has(cache_by_ingredients, k)
            /\ (now - cache_by_ingredients[k].ts) < cache_ttl_seconds
            /\ Len(cache_by_ingredients[k].list) = MaxLimit
            /\ ~Has(cache_by_name, k)
            /\ ~by_n.hit
            /\ by_n.ret # cache_by_ingredients[k].list
            /\ image_cache # <<>>

\* ------------------------------------------------------------------ failing providers

\* Where a provider call made by a search raises: nowhere, in the Dataset
\* Search Provider's search, or in get_recipe_image when it is called for
\* the record at position n of the list.
Faults ==
    {[at |-> "nowhere", n |-> 0], [at |-> "search", n |-> 0]}
    \cup {[at |-> "image", n |-> n] : n \in 1..MaxLimit}

\* A call that returns, and a call that an exception leaves: nothing is
\* returned, the statements after the one that raised are not run, so the
\* search caches are as the call found them and the image cache is as the
\* enrichment had it by then; its steps are the enrichment steps that
\* were completed.
Return(o) == [raised |-> FALSE, o |-> o]

Raise(key, ds, steps, icache, st) ==
    [raised |-> TRUE,
     o |-> Outcome(<<>>, FALSE, key, -1, ds, steps,
                   st.cache_by_ingredients, st.cache_by_name, icache)]

\* get_recipe_image is called, and raises, for record fault.n of result
image_raises(result, fault, icache) ==
    /\ fault.at = "image"
    /\ fault.n <= Len(result)
    /\ ~Has(CacheBefore(result, fault.n, icache),
            image_cache_key(result[fault.n].name, result[fault.n].cuisine))

\* the enrichment of the records before the one the call raises for
before_fault(result, fault, icache) ==
    enhance_with_accurate_images(SubSeq(result, 1, fault.n - 1), icache)

\* A variant of search_by_name with a failing provider that stores the
\* list before it enriches it.
search_by_name_with_fault_stored(query, limit, fault, st) ==
    LET o == search_by_name_call(query, limit, st)
        call == DsCall("search_by_name", query, limit)
        result == indian_search_by_name(query, limit)
    IN  IF o.ds = <<>> THEN Return(o)
        ELSE IF fault.at = "search"
        THEN Raise(o.key, <<call>>, <<>>, st.image_cache, st)
        ELSE IF image_raises(result, fault, st.image_cache)
        THEN [raised |-> TRUE,
              o |-> Outcome(<<>>, FALSE, o.key, -1, <<call>>,
                            before_fault(result, fault, st.image_cache).steps,
                            st.cache_by_ingredients,
                            Put(st.cache_by_name, o.key,
                                Entry(st.now,
                                      before_fault(result, fault, st.image_cache).recipes
                                      \o SubSeq(result, fault.n, Len(result)))),
                            before_fault(result, fault, st.image_cache).icache)]
        ELSE Return(o)

\* search_by_name(query, limit) called in state st with a provider that
\* raises at fault: the early return and the cache hit call no provider;
\* on a miss the exception of line 62 or of line 109 leaves the call there
\* (there is no try around them), before the cache is written on line 68.
search_by_name_with_fault(query, limit, fault, st) ==
    LET o == search_by_name_call(query, limit, st)
        call == DsCall("search_by_name", query, limit)
        result == indian_search_by_name(query, limit)
    IN  IF o.ds = <<>> THEN Return(o)
        ELSE IF fault.at = "search"
        THEN Raise(o.key, <<call>>, <<>>, st.image_cache, st)
        ELSE IF image_raises(result, fault, st.image_cache)
        THEN Raise(o.key, <<call>>, before_fault(result, fault, st.image_cache).steps,
                   before_fault(result, fault, st.image_cache).icache, st)
        ELSE Return(o)

\* search_by_ingredients(ingredients, limit) likewise (lines 38, 109, 44)
search_by_ingredients_with_fault(ingredients, limit, fault, st) ==
    LET o == search_by_ingredients_call(ingredients, limit, st)
        call == DsCall("search_by_ingredients", ingredients, limit)
        result == indian_search_by_ingredients(ingredients, limit)
    IN  IF o.ds = <<>> THEN Return(o)
        ELSE IF fault.at = "search"
        THEN Raise(o.key, <<call>>, <<>>, st.image_cache, st)
        ELSE IF image_raises(result, fault, st.image_cache)
        THEN Raise(o.key, <<call>>, before_fault(result, fault, st.image_cache).steps,
                   before_fault(result, fault, st.image_cache).icache, st)
        ELSE Return(o)

\* The callers here search one name, of which the provider has records
\* with different image keys, and one ingredient set.
FaultyQueries == { <<"b">> }

FaultySearchByName ==
    \E query \in FaultyQueries, limit \in Limits, fault \in Faults :
        /\ Install(search_by_name_with_fault(query, limit, fault, Current).o)
        /\ UNCHANGED first

FaultySearchByIngredients ==
    \E ingredients \in PairIngredientLists, limit \in Limits, fault \in Faults :
        /\ Install(search_by_ingredients_with_fault(ingredients, limit, fault, Current).o)
        /\ UNCHANGED first

FaultyNext == FaultySearchByIngredients \/ FaultySearchByName \/ GetRandomRecipes \/ Tick

\* The facade with providers that may raise.
FaultySpec == Init /\ [][FaultyNext]_vars

\* the search calls that can be made now, with the fault each meets
FaultyCalls ==
    {[fault |-> f, key |-> name_key(q), cache |-> cache_by_name,
      r |-> search_by_name_with_fault(q, l, f, Current)] :
        q \in FaultyQueries, l \in Limits, f \in Faults}
    \cup {[fault |-> f, key |-> ingredients_key_of[i], cache |-> cache_by_ingredients,
           r |-> search_by_ingredients_with_fault(i, l, f, Current)] :
        i \in PairIngredientLists, l \in Limits, f \in Faults}

\* C17: a search call in which a provider raises returns nothing and
\* leaves both search caches as they were, the entry of its key, absent,
\* fresh or expired, included; no search cache ever holds a record without
\* its image fields; the image cache keeps what it had.
C17_FailureLeavesSearchCache ==
    /\ \A c \in FaultyCalls :
          c.r.raised =>
              /\ c.r.o.ret = <<>>
              /\ c.r.o.cache_by_name = cache_by_name
              /\ c.r.o.cache_by_ingredients = cache_by_ingredients
              /\ \A k \in DOMAIN image_cache :
                    Has(c.r.o.image_cache, k) /\ c.r.o.image_cache[k] = image_cache[k]
    /\ \A r \in CachedRecords : Enriched(r)

\* A search finds the entry of its key expired with a record in it, its
\* provider returns two records, the first gets its image fields and
\* get_recipe_image raises for the second.
C17_Witness ==
    \E c \in FaultyCalls :
        /\ c.r.raised
        /\ c.fault = [at |-> "image", n |-> 2]
        /\ Has(c.cache, c.key)
        /\ (now - c.cache[c.key].ts) >= cache_ttl_seconds
        /\ c.cache[c.key].list # <<>>

\* ------------------------------------------------------------------ calls in flight together

\* The searches the two threads make: one name and one ingredient set.
ThreadQueries == { <<"b">> }

ThreadIngredientLists == SharedKeyIngredientLists

ThreadInputs ==
    {[op |-> "name", arg |-> q] : q \in ThreadQueries}
    \cup {[op |-> "ingredients", arg |-> i] : i \in ThreadIngredientLists}

\* the guard and the cache check of a search (lines 27-35, 51-59)
cache_check(op, arg, limit, st) ==
    IF op = "name" THEN search_by_name_call(arg, limit, st)
    ELSE search_by_ingredients_call(arg, limit, st)

\* the provider call of a search (lines 38, 62)
provider_search(op, arg, limit) ==
    IF op = "name" THEN indian_search_by_name(arg, limit)
    ELSE indian_search_by_ingredients(arg, limit)

InFlight(t) == inflight[t].pc \notin {"idle", "done"}

\* the loop of _enhance_with_accurate_images goes on to the next record, or
\* ends
Advance(c) ==
    [c EXCEPT !.n = c.n + 1, !.pc = IF c.n + 1 > Len(c.result) THEN "store" ELSE "look"]

\* Thread t calls a search: the guard, the key and the cache check. An
\* early return or a hit ends the call; a miss goes on to the provider.
Begin(t, op, arg, limit) ==
    /\ inflight[t].pc = "idle"
    /\ LET o == cache_check(op, arg, limit, Current)
           ends == o.ds = <<>>
           other == \E u \in Threads \ {t} : InFlight(u)
       IN  inflight' =
               [u \in Threads |->
                   IF u = t
                   THEN [NotCalled EXCEPT !.pc = IF ends THEN "done" ELSE "fetch",
                                          !.op = op, !.arg = arg, !.limit = limit,
                                          !.key = o.key,
                                          !.ret = IF ends THEN o.ret ELSE <<>>,
                                          !.together = other]
                   ELSE [inflight[u] EXCEPT !.together = @ \/ InFlight(u)]]
    /\ UNCHANGED <<now, cache_by_ingredients, cache_by_name, image_cache, image_calls, first>>

\* A variant of the provider call that writes the cache as soon as the
\* provider has returned.
Fetch_storing(t) ==
    /\ inflight[t].pc = "fetch"
    /\ LET c == inflight[t]
           result == provider_search(c.op, c.arg, c.limit)
       IN  /\ inflight' = [inflight EXCEPT ![t] =
                   [c EXCEPT !.result = result, !.fetched = TRUE, !.n = 1,
                             !.pc = IF result = <<>> THEN "store" ELSE "look"]]
           /\ IF c.op = "name"
              THEN /\ cache_by_name' = Put(cache_by_name, c.key, Entry(now, result))
                   /\ UNCHANGED cache_by_ingredients
              ELSE /\ cache_by_ingredients' =
                         Put(cache_by_ingredients, c.key, Entry(now, result))
                   /\ UNCHANGED cache_by_name
    /\ UNCHANGED <<now, image_cache, image_calls, first>>

\* result = await self.indian_service.search_by_...(..., limit)
Fetch(t) ==
    /\ inflight[t].pc = "fetch"
    /\ LET c == inflight[t]
           result == provider_search(c.op, c.arg, c.limit)
       IN  inflight' = [inflight EXCEPT ![t] =
               [c EXCEPT !.result = result, !.fetched = TRUE, !.n = 1,
                         !.pc = IF result = <<>> THEN "store" ELSE "look"]]
    /\ UNCHANGED <<now, cache_by_ingredients, cache_by_name, image_cache, image_calls, first>>

\* if cache_key in self._image_cache: the record takes the URL of the
\* cache and the loop goes on; otherwise the thread is to call the image
\* provider
Look(t) ==
    /\ inflight[t].pc = "look"
    /\ LET c == inflight[t]
           recipe == c.result[c.n]
       IN  inflight' = [inflight EXCEPT ![t] =
               IF Has(image_cache, image_cache_key(recipe.name, recipe.cuisine))
               THEN Advance([c EXCEPT !.result[c.n] = enhance_one(recipe, image_cache).recipe])
               ELSE [c EXCEPT !.pc = "resolve"]]
    /\ UNCHANGED <<now, cache_by_ingredients, cache_by_name, image_cache, image_calls, first>>

\* the else branch: get_recipe_image, the image cache written whatever it
\* holds by now, the record's two fields
Resolve(t) ==
    /\ inflight[t].pc = "resolve"
    /\ LET c == inflight[t]
           recipe == c.result[c.n]
           accurate_image_url ==
               get_recipe_image(recipe.name, recipe.cuisine, ingredients_str(recipe))
       IN  /\ image_cache' = Put(image_cache,
                                 image_cache_key(recipe.name, recipe.cuisine),
                                 accurate_image_url)
           /\ image_calls' =
                 [image_calls EXCEPT ![<<recipe.name, recipe.cuisine>>] = @ + 1]
           /\ inflight' = [inflight EXCEPT ![t] =
                 Advance([c EXCEPT !.result[c.n] =
                     [recipe EXCEPT !.image_url = accurate_image_url,
                                    !.image_source = source_when_resolved]])]
    /\ UNCHANGED <<now, cache_by_ingredients, cache_by_name, first>>

\* the writes made so far by the calls of the other threads
WritesOf(others) ==
    Cardinality({u \in others : inflight[u].wrote > 0})

\* self._cache_by_...[key] = (time.time(), result); return result
Store(t) ==
    /\ inflight[t].pc = "store"
    /\ LET c == inflight[t]
       IN  /\ inflight' = [inflight EXCEPT ![t] =
                   [c EXCEPT !.pc = "done", !.ret = c.result,
                             !.wrote = 1 + WritesOf(Threads \ {t})]]
           /\ IF c.op = "name"
              THEN /\ cache_by_name' = Put(cache_by_name, c.key, Entry(now, c.result))
                   /\ UNCHANGED cache_by_ingredients
              ELSE /\ cache_by_ingredients' =
                         Put(cache_by_ingredients, c.key, Entry(now, c.result))
                   /\ UNCHANGED cache_by_name
    /\ UNCHANGED <<now, image_cache, image_calls, first>>

ThreadBegin ==
    \E t \in Threads, i \in ThreadInputs, limit \in Limits : Begin(t, i.op, i.arg, limit)

ThreadStep == \E t \in Threads : Fetch(t) \/ Look(t) \/ Resolve(t) \/ Store(t)

\* Two threads in one search each, with random selections made by others in
\* between; the clock stands still while they run.
ThreadNext == ThreadBegin \/ ThreadStep \/ GetRandomRecipes

ThreadSpec == Init /\ [][ThreadNext]_vars

\* the calls of threads t and u were in flight together with one operation
\* and one cache key, both missed, and both have returned
BothMissed(t, u) ==
    /\ t # u
    /\ inflight[t].pc = "done" /\ inflight[u].pc = "done"
    /\ inflight[t].op = inflight[u].op /\ inflight[t].key = inflight[u].key
    /\ inflight[t].fetched /\ inflight[u].fetched
    /\ inflight[t].together /\ inflight[u].together

\* the call of thread t wrote the entry of its key last
WroteLast(t) ==
    /\ inflight[t].wrote > 0
    /\ \A u \in Threads \ {t} :
          (inflight[u].op = inflight[t].op /\ inflight[u].key = inflight[t].key)
              => inflight[u].wrote < inflight[t].wrote

\* a list without its image fields
Plain(recipes) ==
    [n \in 1..Len(recipes) |->
        [name |-> recipes[n].name, cuisine |-> recipes[n].cuisine,
         ingredients |-> recipes[n].ingredients]]

Shorter(a, b) == IF Len(a) <= Len(b) THEN Len(a) ELSE Len(b)

\* the entry of a key is the list that the call which wrote it last
\* returned: all that the provider gave that call, every record with its
\* image fields; and no search cache ever holds a record without them
LastWriteWins ==
    /\ \A t \in Threads :
          WroteLast(t) =>
              LET c == inflight[t]
                  cache == IF c.op = "name" THEN cache_by_name ELSE cache_by_ingredients
              IN  /\ Has(cache, c.key)
                  /\ cache[c.key].list = c.ret
                  /\ Plain(c.ret) = Plain(provider_search(c.op, c.arg, c.limit))
    /\ \A r \in CachedRecords : Enriched(r)

\* every record of the list has a URL of its own name and cuisine
OwnUrls(recipes) ==
    \A n \in 1..Len(recipes) :
        recipes[n].image_url \in UrlsFor(recipes[n].name, recipes[n].cuisine)

====
